---- MODULE Spec2Model ----
(***************************************************************************)
(* A model of examples/flask/static/stocks.py: a Flask application with    *)
(* two routes.  GET / returns a constant string.  GET /stock/<name> calls  *)
(* _make_plot(name), which declares the charting library's output file,    *)
(* fetches the symbol's price history, plots it without its first 50       *)
(* points, serializes the library's current plot as a snippet, and the     *)
(* handler renders a template with the name and that snippet.              *)
(*                                                                         *)
(* The charting library keeps its output-file declaration and its current  *)
(* plot in process-wide state; they are variables of the model.  Each      *)
(* request slot (a worker serving one request at a time) has a program     *)
(* counter that walks the statements of stock and _make_plot.              *)
(***************************************************************************)
EXTENDS Integers, Sequences, FiniteSets, TLC

(* ------------------------------ bounds -------------------------------- *)

\* Longest provider response.
MaxLen == 52
\* Last day the clock reaches (days are counted from process start).
MaxDay == 1

(* ---------------------------- constants ------------------------------- *)

\* dates[50:], close[50:]
TrimCount == 50

Reqs == {"r1", "r2"}
Symbols == {"AAPL", "GOOG"}
Headers == {"plain", "json"}
Lens == 0..MaxLen
\* Response lengths used when two requests are in flight together.
ConcLens == {TrimCount, MaxLen}

NoName == "-"
NoFile == "-"
NoPlot == [kind |-> "none"]
NoSnippet == [kind |-> "none"]
NoResp == [route |-> "-"]
NoArgs == [kind |-> "none"]
NoDay == 0 - 1
NoRange == [start |-> <<0, 0, 0>>, end |-> NoDay]
NoData == [dates |-> <<>>, close |-> <<>>]

VARIABLES
    today,          \* the clock: datetime.date.today()
    out_file,       \* charting library: the declared output file
    cur_plot,       \* charting library: the current plot
    files,          \* local storage: the HTML files written
    pc,             \* per slot: the statement the request is at
    name,           \* per slot: the <name> of the URL
    rng,            \* per slot: start, end of _make_plot
    data,           \* per slot: data of _make_plot
    snippet,        \* per slot: snippet of stock
    resp,           \* per slot: the last response sent
    steps,          \* history: the calls the request has made, in order
    failed,         \* history: the request's fetch raised
    req_day,        \* history: the clock when the request read it
    plot_at_start,  \* history: cur_plot when the request began
    file_at_start,  \* history: out_file when the request began
    line_args,      \* history: what the request passed to line
    fetch_args,     \* history: what the request passed to DataReader
    prev_name,      \* history: the symbol of the stock request before this one
    last_name,      \* history: the symbol of the latest stock request
    last_op         \* history: the route and headers of the latest step

lib == <<out_file, cur_plot, files>>
locals == <<name, rng, data, snippet>>
hist == <<steps, failed, req_day, plot_at_start, file_at_start, line_args,
          fetch_args, prev_name, last_name>>
vars == <<today, lib, pc, locals, resp, hist, last_op>>

(* ------------------------- pure functions ----------------------------- *)

\* Python's s[k:] on a sequence: the start is clamped to the length, and the
\* elements from 0-based index k on are kept.
PySliceFrom(s, k) ==
    LET start == IF k > Len(s) THEN Len(s) ELSE k
    IN  [i \in 1..(Len(s) - start) |-> s[start + i]]

\* A slice that starts one element early.
TrimmedOffByOne(s) == PySliceFrom(s, TrimCount - 1)

\* A slice that falls back to the whole series when it is too short.
TrimmedOrAll(s) == IF Len(s) < TrimCount THEN s ELSE PySliceFrom(s, TrimCount)

\* dates[50:] and close[50:]
Trimmed(s) == PySliceFrom(s, TrimCount)

\* "%s.html" % symbol
FileName(symbol) == symbol \o ".html"

\* '%s price at close' % symbol
Title(symbol) == symbol \o " price at close"

\* datetime.date(2012, 1, 1)
StartDate == <<2012, 1, 1>>

\* The end date fixed when the module was loaded (day 0).
EndDateAtImport(now) == 0

\* datetime.date.today()
EndDate(now) == now

\* The provider's answer for a symbol: L rows, dates ascending, one closing
\* price per date.
Frame(symbol, L) ==
    [dates |-> [i \in 1..L |-> i],
     close |-> [i \in 1..L |-> (IF symbol = "AAPL" THEN 100 ELSE 200) + (i % 7)]]

\* The line glyph of line(x, y, color='#1B9E77', name="close").
Glyph(x, y) == [x |-> x, y |-> y, color |-> "#1B9E77", name |-> "close"]

\* The plot line(x, y, width=800, height=600, x_axis_type='datetime',
\* title=...) makes when it makes a new one.
NewPlot(x, y, title) ==
    [kind |-> "plot", width |-> 800, height |-> 600,
     x_axis_type |-> "datetime", title |-> title, glyphs |-> <<Glyph(x, y)>>]

\* A module that has called hold() before serving.
HoldOn == TRUE

\* The library's hold state: the module never calls hold().
Hold == FALSE

\* The plot line(...) draws on: with hold on and a current plot, the glyph
\* is added to the current plot; otherwise a new plot is made.
LinePlot(cur, x, y, title) ==
    IF Hold /\ cur # NoPlot
    THEN [cur EXCEPT !.glyphs = Append(@, Glyph(x, y))]
    ELSE NewPlot(x, y, title)

\* plot.create_html_snippet(embed_base_url=..., embed_save_loc=..., static_path=...)
CreateHtmlSnippet(plot) ==
    [kind |-> "snippet", plot |-> plot, embed_base_url |-> "/static/js/",
     embed_save_loc |-> "./static/js",
     static_path |-> "http://cdn.pydata.org/bokeh/0.4.2/"]

\* render_template('stock.html', name=..., snippet=...): the page echoes the
\* name and embeds the snippet.
RenderTemplate(template, n, s) ==
    [template |-> template, name |-> n, snippet |-> s]

\* A handler that passes the literal 'name' in place of the variable.
RenderArgsLiteralName(n, s) == [name |-> "name", snippet |-> s]

\* render_template('stock.html', name=name, snippet=snippet)
RenderArgs(n, s) == [name |-> n, snippet |-> s]

\* An index text that mentions the latest output file.
IndexTextWithFile == "Navigate to stock/<name>, latest: " \o out_file

\* The text index returns.
IndexText == "Navigate to stock/<name> to see a chart for a given stock symbol"

\* The response the framework sends when the handler raises.
ErrorResponse == [route |-> "stock", status |-> 500, body |-> "Internal Server Error"]

(* ------------------------- control flow ------------------------------- *)

\* _make_plot with the fetch moved before the output-file declaration.
NextPcFetchFirst(p) ==
    CASE p = "range" -> "fetch"
      [] p = "fetch" -> "output_file"
      [] p = "output_file" -> "line"
      [] p = "line" -> "snippet"
      [] p = "snippet" -> "render"
      [] p = "render" -> "idle"

\* stock rendering the template before it has the snippet.
NextPcRenderFirst(p) ==
    CASE p = "range" -> "output_file"
      [] p = "output_file" -> "fetch"
      [] p = "fetch" -> "line"
      [] p = "line" -> "render"
      [] p = "render" -> "snippet"
      [] p = "snippet" -> "idle"

\* The statement after statement p in stock and _make_plot.
NextPc(p) ==
    CASE p = "range" -> "output_file"
      [] p = "output_file" -> "fetch"
      [] p = "fetch" -> "line"
      [] p = "line" -> "snippet"
      [] p = "snippet" -> "render"
      [] p = "render" -> "idle"

\* A handler that swallows the fetch error and goes on with empty data.
SwallowFetchError == "line"

\* Where a request goes when DataReader raises: nothing catches it.
OnFetchError == "raised"

(* ------------------------------ Init ---------------------------------- *)

Init ==
    /\ today = 0
    /\ out_file = NoFile
    /\ cur_plot = NoPlot
    /\ files = {}
    /\ pc = [r \in Reqs |-> "idle"]
    /\ name = [r \in Reqs |-> NoName]
    /\ rng = [r \in Reqs |-> NoRange]
    /\ data = [r \in Reqs |-> NoData]
    /\ snippet = [r \in Reqs |-> NoSnippet]
    /\ resp = [r \in Reqs |-> NoResp]
    /\ steps = [r \in Reqs |-> <<>>]
    /\ failed = [r \in Reqs |-> FALSE]
    /\ req_day = [r \in Reqs |-> NoDay]
    /\ plot_at_start = [r \in Reqs |-> NoPlot]
    /\ file_at_start = [r \in Reqs |-> NoFile]
    /\ line_args = [r \in Reqs |-> NoArgs]
    /\ fetch_args = [r \in Reqs |-> NoArgs]
    /\ prev_name = [r \in Reqs |-> NoName]
    /\ last_name = NoName
    /\ last_op = [route |-> "-", hdr |-> "-"]

(* ----------------------------- actions -------------------------------- *)

\* The date changes.
Tick ==
    /\ today < MaxDay
    /\ today' = today + 1
    /\ last_op' = [route |-> "tick", hdr |-> "-"]
    /\ UNCHANGED <<lib, pc, locals, resp, hist>>

\* GET /: index() returns the text.
Index(r, h, workers) ==
    /\ r \in workers
    /\ pc[r] = "idle"
    /\ resp' = [resp EXCEPT ![r] = [route |-> "/", status |-> 200, body |-> IndexText]]
    /\ last_op' = [route |-> "/", hdr |-> h]
    /\ UNCHANGED <<today, lib, pc, locals, hist>>

\* GET /stock/<n>: the framework calls stock(n), which calls _make_plot(n).
\* With serial set, a request starts only when no other is in flight.
StartStock(r, n, h, workers, serial) ==
    /\ r \in workers
    /\ pc[r] = "idle"
    /\ serial => \A q \in Reqs : pc[q] = "idle"
    /\ pc' = [pc EXCEPT ![r] = "range"]
    /\ name' = [name EXCEPT ![r] = n]
    /\ rng' = [rng EXCEPT ![r] = NoRange]
    /\ data' = [data EXCEPT ![r] = NoData]
    /\ snippet' = [snippet EXCEPT ![r] = NoSnippet]
    /\ steps' = [steps EXCEPT ![r] = <<>>]
    /\ failed' = [failed EXCEPT ![r] = FALSE]
    /\ req_day' = [req_day EXCEPT ![r] = NoDay]
    /\ plot_at_start' = [plot_at_start EXCEPT ![r] = cur_plot]
    /\ file_at_start' = [file_at_start EXCEPT ![r] = out_file]
    /\ line_args' = [line_args EXCEPT ![r] = NoArgs]
    /\ fetch_args' = [fetch_args EXCEPT ![r] = NoArgs]
    /\ prev_name' = [prev_name EXCEPT ![r] = last_name]
    /\ last_name' = n
    /\ last_op' = [route |-> "stock", hdr |-> h]
    /\ UNCHANGED <<today, lib, resp>>

\* start = datetime.date(2012, 1, 1); end = datetime.date.today(); periods = 50
ComputeRange(r) ==
    /\ pc[r] = "range"
    /\ rng' = [rng EXCEPT ![r] = [start |-> StartDate, end |-> EndDate(today)]]
    /\ req_day' = [req_day EXCEPT ![r] = today]
    /\ pc' = [pc EXCEPT ![r] = NextPc("range")]
    /\ last_op' = [route |-> "stock", hdr |-> "-"]
    /\ UNCHANGED <<today, lib, name, data, snippet, resp, steps, failed,
                   plot_at_start, file_at_start, line_args, fetch_args,
                   prev_name, last_name>>

\* output_file("%s.html" % symbol, title=...)
OutputFile(r) ==
    /\ pc[r] = "output_file"
    /\ out_file' = FileName(name[r])
    /\ steps' = [steps EXCEPT ![r] = Append(@, "output_file")]
    /\ pc' = [pc EXCEPT ![r] = NextPc("output_file")]
    /\ last_op' = [route |-> "stock", hdr |-> "-"]
    /\ UNCHANGED <<today, cur_plot, files, locals, resp, failed, req_day,
                   plot_at_start, file_at_start, line_args, fetch_args,
                   prev_name, last_name>>

\* data = web.DataReader(symbol, 'yahoo', start, end): the provider answers.
FetchOk(r, lens) ==
    /\ pc[r] = "fetch"
    /\ \E L \in lens : data' = [data EXCEPT ![r] = Frame(name[r], L)]
    /\ fetch_args' = [fetch_args EXCEPT ![r] =
           [kind |-> "fetch", symbol |-> name[r], source |-> "yahoo",
            start |-> rng[r].start, end |-> rng[r].end]]
    /\ steps' = [steps EXCEPT ![r] = Append(@, "fetch")]
    /\ pc' = [pc EXCEPT ![r] = NextPc("fetch")]
    /\ last_op' = [route |-> "stock", hdr |-> "-"]
    /\ UNCHANGED <<today, lib, name, rng, snippet, resp, failed, req_day,
                   plot_at_start, file_at_start, line_args, prev_name, last_name>>

\* data = web.DataReader(symbol, 'yahoo', start, end): the provider raises.
FetchFail(r) ==
    /\ pc[r] = "fetch"
    /\ fetch_args' = [fetch_args EXCEPT ![r] =
           [kind |-> "fetch", symbol |-> name[r], source |-> "yahoo",
            start |-> rng[r].start, end |-> rng[r].end]]
    /\ steps' = [steps EXCEPT ![r] = Append(@, "fetch")]
    /\ failed' = [failed EXCEPT ![r] = TRUE]
    /\ pc' = [pc EXCEPT ![r] = OnFetchError]
    /\ last_op' = [route |-> "stock", hdr |-> "-"]
    /\ UNCHANGED <<today, lib, locals, resp, req_day, plot_at_start,
                   file_at_start, line_args, prev_name, last_name>>

\* close = data['Close'].values; dates = data.index.values;
\* line(dates[50:], close[50:], ...): the library makes a new plot, makes it
\* the current plot and saves the declared output file.
Line(r) ==
    /\ pc[r] = "line"
    /\ LET close == data[r].close
           dates == data[r].dates
           x == Trimmed(dates)
           y == Trimmed(close)
       IN  /\ cur_plot' = LinePlot(cur_plot, x, y, Title(name[r]))
           /\ line_args' = [line_args EXCEPT ![r] =
                  [kind |-> "line", x |-> x, y |-> y, title |-> Title(name[r])]]
    /\ files' = files \cup {out_file}
    /\ steps' = [steps EXCEPT ![r] = Append(@, "line")]
    /\ pc' = [pc EXCEPT ![r] = NextPc("line")]
    /\ last_op' = [route |-> "stock", hdr |-> "-"]
    /\ UNCHANGED <<today, out_file, locals, resp, failed, req_day,
                   plot_at_start, file_at_start, fetch_args, prev_name, last_name>>

\* return curplot().create_html_snippet(...); snippet = _make_plot(name).
\* With no current plot, curplot() is None and the call raises.
Snippet(r) ==
    /\ pc[r] = "snippet"
    /\ IF cur_plot = NoPlot
       THEN /\ pc' = [pc EXCEPT ![r] = "raised"]
            /\ UNCHANGED <<snippet, steps>>
       ELSE /\ snippet' = [snippet EXCEPT ![r] = CreateHtmlSnippet(cur_plot)]
            /\ steps' = [steps EXCEPT ![r] = Append(@, "snippet")]
            /\ pc' = [pc EXCEPT ![r] = NextPc("snippet")]
    /\ last_op' = [route |-> "stock", hdr |-> "-"]
    /\ UNCHANGED <<today, lib, name, rng, data, resp, failed, req_day,
                   plot_at_start, file_at_start, line_args, fetch_args,
                   prev_name, last_name>>

\* return render_template('stock.html', name=name, snippet=snippet)
Render(r) ==
    /\ pc[r] = "render"
    /\ LET a == RenderArgs(name[r], snippet[r])
       IN  resp' = [resp EXCEPT ![r] =
               [route |-> "stock", status |-> 200,
                body |-> RenderTemplate("stock.html", a.name, a.snippet)]]
    /\ steps' = [steps EXCEPT ![r] = Append(@, "render")]
    /\ pc' = [pc EXCEPT ![r] = NextPc("render")]
    /\ last_op' = [route |-> "stock", hdr |-> "-"]
    /\ UNCHANGED <<today, lib, locals, failed, req_day, plot_at_start,
                   file_at_start, line_args, fetch_args, prev_name, last_name>>

\* The exception leaves _make_plot and stock; the framework answers.
Propagate(r) ==
    /\ pc[r] = "raised"
    /\ resp' = [resp EXCEPT ![r] = ErrorResponse]
    /\ pc' = [pc EXCEPT ![r] = "idle"]
    /\ last_op' = [route |-> "stock", hdr |-> "-"]
    /\ UNCHANGED <<today, lib, locals, hist>>

(* -------------------------- specifications ---------------------------- *)

\* The development server of app.run(debug=True): one worker, one request
\* handled from start to response before the next.
SerialWorkers == {"r1"}

Next ==
    \/ Tick
    \/ \E h \in Headers : Index("r1", h, SerialWorkers)
    \/ \E n \in Symbols, h \in Headers : StartStock("r1", n, h, SerialWorkers, TRUE)
    \/ ComputeRange("r1")
    \/ OutputFile("r1")
    \/ FetchOk("r1", Lens)
    \/ FetchFail("r1")
    \/ Line("r1")
    \/ Snippet("r1")
    \/ Render("r1")
    \/ Propagate("r1")

Spec == Init /\ [][Next]_vars

\* The application under a threaded server: two requests for different
\* symbols in flight together, their statements interleaved.
ConcSymbol(r) == IF r = "r1" THEN "AAPL" ELSE "GOOG"

NextConc ==
    \/ \E r \in Reqs : StartStock(r, ConcSymbol(r), "plain", Reqs, FALSE)
    \/ \E r \in Reqs : ComputeRange(r)
    \/ \E r \in Reqs : OutputFile(r)
    \/ \E r \in Reqs : FetchOk(r, ConcLens)
    \/ \E r \in Reqs : FetchFail(r)
    \/ \E r \in Reqs : Line(r)
    \/ \E r \in Reqs : Snippet(r)
    \/ \E r \in Reqs : Render(r)
    \/ \E r \in Reqs : Propagate(r)

SpecConc == Init /\ [][NextConc]_vars

(* ------------------------------ claims -------------------------------- *)

\* The calls of a successful stock request, in the order of the code.
FullSteps == <<"output_file", "fetch", "line", "snippet", "render">>

IsPrefix(s, t) == Len(s) <= Len(t) /\ \A i \in 1..Len(s) : s[i] = t[i]

IsSuffix(s, t) ==
    Len(s) <= Len(t) /\ \A i \in 1..Len(s) : s[i] = t[Len(t) - Len(s) + i]

Count(s, e) == Cardinality({i \in 1..Len(s) : s[i] = e})

\* The request of slot r has fetched its data.
Fetched(r) == fetch_args[r].kind = "fetch" /\ ~failed[r]

\* The last thing slot r did was answer a stock request.
Answered(r) == pc[r] = "idle" /\ resp[r].route = "stock"

\* C1: for a provider response of length L >= 50, line receives exactly
\* L - 50 dates and L - 50 prices, and when any are left the first date it
\* receives is the provider's 51st; at L = 50 it receives none.
C1_TrimDropsFirstFifty ==
    \A r \in Reqs :
        (line_args[r].kind = "line" /\ Len(data[r].dates) >= 50) =>
            /\ Len(line_args[r].x) = Len(data[r].dates) - 50
            /\ Len(line_args[r].y) = Len(data[r].close) - 50
            /\ Len(data[r].dates) = 50 => line_args[r].x = <<>>
            /\ Len(data[r].dates) > 50 =>
                   /\ line_args[r].x[1] = data[r].dates[51]
                   /\ line_args[r].y[1] = data[r].close[51]

\* C1 witness: a request has plotted a response longer than 50 points.
C1_Witness ==
    /\ line_args["r1"].kind = "line"
    /\ Len(data["r1"].dates) > 50
    /\ Len(line_args["r1"].x) > 0

\* C2: for a provider response shorter than 50 points, line receives empty
\* dates and empty prices, the request never raises, and when it is answered
\* it has made all its calls and the page (status 200) embeds the plot of the
\* empty series.
C2_ShortSeriesPlotsEmpty ==
    \A r \in Reqs :
        (Fetched(r) /\ Len(data[r].dates) < 50) =>
            /\ pc[r] # "raised"
            /\ line_args[r].kind = "line" =>
                   line_args[r].x = <<>> /\ line_args[r].y = <<>>
            /\ Answered(r) =>
                   /\ resp[r].status = 200
                   /\ steps[r] = FullSteps
                   /\ resp[r].body.snippet.kind = "snippet"
                   /\ resp[r].body.snippet.plot.glyphs =
                          <<[x |-> <<>>, y |-> <<>>, color |-> "#1B9E77",
                             name |-> "close"]>>

\* C2 witness: a request whose provider response had 1 to 49 points has been
\* answered.
C2_Witness ==
    /\ Fetched("r1")
    /\ Len(data["r1"].dates) > 0
    /\ Len(data["r1"].dates) < 50
    /\ Answered("r1")

\* What a stock request for symbol n whose provider data is d answers when
\* nothing else has ever been requested.
AloneResponse(n, d) ==
    [route |-> "stock", status |-> 200,
     body |-> [template |-> "stock.html", name |-> n,
               snippet |-> CreateHtmlSnippet(
                   NewPlot(PySliceFrom(d.dates, 50), PySliceFrom(d.close, 50),
                           n \o " price at close"))]]

\* C3: when requests are served one after the other, the answer to a stock
\* request that follows a stock request for another symbol is the answer it
\* would give alone: it depends only on its own symbol and provider data.
C3_ConsecutiveIndependent ==
    \A r \in Reqs :
        (Answered(r) /\ resp[r].status = 200
            /\ prev_name[r] # NoName /\ prev_name[r] # name[r]) =>
            resp[r] = AloneResponse(name[r], data[r])

\* C3 witness: a request has been answered after a request for another
\* symbol had left its plot and its output file in the library.
C3_Witness ==
    /\ Answered("r1")
    /\ resp["r1"].status = 200
    /\ prev_name["r1"] # NoName
    /\ prev_name["r1"] # name["r1"]
    /\ plot_at_start["r1"] # NoPlot
    /\ file_at_start["r1"] # NoFile
    /\ file_at_start["r1"] # FileName(name["r1"])

\* C4: a stock request whose provider response has at least 50 points never
\* raises and is answered with status 200 and the page of template
\* stock.html, rendered with the requested name and with the snippet
\* _make_plot returned.
C4_PageEchoesSymbol ==
    \A r \in Reqs :
        (Fetched(r) /\ Len(data[r].dates) >= 50) =>
            /\ pc[r] # "raised"
            /\ Answered(r) =>
                   /\ resp[r].status = 200
                   /\ resp[r].body.template = "stock.html"
                   /\ resp[r].body.name = name[r]
                   /\ resp[r].body.name \in Symbols
                   /\ resp[r].body.snippet = snippet[r]
                   /\ snippet[r].kind = "snippet"

\* C4 witness: a request with a response of at least 50 points is answered.
C4_Witness ==
    /\ Fetched("r1")
    /\ Len(data["r1"].dates) >= 50
    /\ Answered("r1")
    /\ resp["r1"].status = 200

\* C5: once the fetch of a stock request has raised, the request only
\* propagates the error: it has fetched once, it makes no line call, no
\* snippet and no render, and its answer is not a 200 page.
C5_FetchFailurePropagates ==
    \A r \in Reqs :
        failed[r] =>
            /\ pc[r] \in {"raised", "idle"}
            /\ Count(steps[r], "fetch") = 1
            /\ Count(steps[r], "line") = 0
            /\ Count(steps[r], "snippet") = 0
            /\ Count(steps[r], "render") = 0
            /\ line_args[r] = NoArgs
            /\ snippet[r] = NoSnippet
            /\ Answered(r) => resp[r].status # 200

\* C5 witness: a request whose fetch raised has been answered.
C5_Witness ==
    /\ failed["r1"]
    /\ Answered("r1")
    /\ resp["r1"].status = 500

\* C6: every fetch asks the provider for the range from 2012-01-01 to the
\* date the clock showed when the request read it, whatever the symbol.
C6_FixedStartTodayEnd ==
    \A r \in Reqs :
        fetch_args[r].kind = "fetch" =>
            /\ fetch_args[r].start = <<2012, 1, 1>>
            /\ fetch_args[r].end = req_day[r]
            /\ fetch_args[r].end <= today
            /\ fetch_args[r].symbol = name[r]

\* C6 witness: a request for GOOG made after the date changed has fetched.
C6_Witness ==
    /\ fetch_args["r1"].kind = "fetch"
    /\ name["r1"] = "GOOG"
    /\ req_day["r1"] > 0

\* C7: the answer to GET / is always the same status 200 and text, and the
\* step that serves it leaves the library, the files, and every request's
\* fetch and plot calls as they were.
C7_IndexConstantNoEffect ==
    /\ [](\A r \in Reqs :
            resp[r].route = "/" =>
                resp[r] = [route |-> "/", status |-> 200,
                           body |-> "Navigate to stock/<name> to see a chart for a given stock symbol"])
    /\ [][last_op'.route = "/" =>
            /\ UNCHANGED <<out_file, cur_plot, files>>
            /\ UNCHANGED <<steps, fetch_args, line_args>>]_vars

\* C7 witness: GET / with other headers has been served after a stock
\* request left a plot and a file.
C7_Witness ==
    /\ resp["r1"].route = "/"
    /\ last_op = [route |-> "/", hdr |-> "json"]
    /\ cur_plot # NoPlot
    /\ files # {}

\* C8: with requests in flight together, every answered stock request
\* embeds the plot of its own symbol and its own series.
C8_ConcurrentOwnChart ==
    \A r \in Reqs :
        (Answered(r) /\ resp[r].status = 200) =>
            resp[r].body.snippet.plot =
                NewPlot(PySliceFrom(data[r].dates, 50),
                        PySliceFrom(data[r].close, 50),
                        name[r] \o " price at close")

\* C9: a stock request makes its calls in the order output file, fetch,
\* line, snippet, render, each at most once, and all of them once it is
\* answered with status 200; line receives a tail of the fetched series, and
\* the page embeds the snippet made from the plot of that line call.
C9_StepOrder ==
    \A r \in Reqs :
        /\ IsPrefix(steps[r], FullSteps)
        /\ (Answered(r) /\ resp[r].status = 200) =>
               /\ steps[r] = FullSteps
               /\ IsSuffix(line_args[r].x, data[r].dates)
               /\ IsSuffix(line_args[r].y, data[r].close)
               /\ resp[r].body.snippet = snippet[r]
               /\ snippet[r].kind = "snippet"
               /\ snippet[r].plot.glyphs =
                      <<Glyph(line_args[r].x, line_args[r].y)>>

\* C9 witness: a request has been answered with status 200.
C9_Witness ==
    /\ Answered("r1")
    /\ resp["r1"].status = 200
    /\ Len(line_args["r1"].x) > 0

====
